---- MODULE Spec2Model ----
(***************************************************************************)
(* Booking engine of AliceTant: appointment creation, cancellation, notes  *)
(* update and the cascading deletes, as a state machine over the database  *)
(* rows.  A request is a sequence of database round trips; each round trip *)
(* is one step, so that requests interleave between their reads and their  *)
(* writes exactly where the code holds no lock.                            *)
(***************************************************************************)
EXTENDS Integers, Sequences, FiniteSets, TLC

\* ------------------------------------------------------------------ bounds
MaxAppointments == 2        \* appointment rows ever inserted (the id counter)
MaxNow == 3                 \* last value of the clock
MaxCustomersPerCall == 2    \* longest customer_ids list of a booking call

\* ---------------------------------------------------------------- universe
Providers == {"p1", "p2"}
Customers == {"c1", "c2"}
Businesses == {"b1", "b2"}
Dates == 1..2
Times == 1..2
Notes == {"", "n"}
ReqIds == 1..2
Backends == {"postgresql", "sqlite"}

\* Business.provider: the owning provider of each business (models/business.py)
\* accounts: an email is <<local part, domain>>, a username <<base, counter>>
\* with counter 0 for the bare base, as generate_username forms them
Locals == {<<"ann", 0>>, <<"Ann", 0>>}
Domains == {"x"}
Emails == Locals \X Domains
UserRoles == {"CUSTOMER", "PROVIDER"}
NewUserIds == <<"u1", "u2", "u3">>
BusinessNames == {"A", "B"}
Windows == {<<0, "09:00", "10:00">>, <<1, "09:00", "10:00">>}

BusinessOwner(b) == IF b = "b1" THEN "p1" ELSE "p2"

ACTIVE == "ACTIVE"
CANCELLED == "CANCELLED"

\* What a request answers: the exception class raised (exceptions/
\* user_exceptions.py) with the message it carries, or the HTTP status of a
\* view that answers without a service exception.
Answer(kind, msg) == [kind |-> kind, msg |-> msg]
InvalidInput == "InvalidAppointmentDataError"
SlotConflict == "TimeSlotConflictError"
NotFound == "BusinessNotFoundError"
Unauthorized == "UnauthorizedAccessError"
UserNotFound == "UserNotFoundError"
DuplicateUser == "DuplicateUserError"
InvalidUserData == "InvalidUserDataError"
Success == Answer("ok", "")
NoAnswer == Answer("none", "")
Pass == Answer("pass", "")

VARIABLES
    now,            \* datetime.now()
    backend,        \* the database engine of the deployment
    serial,         \* TRUE: requests run one at a time
    customers,      \* stored Customer profiles
    providers,      \* stored Provider profiles
    businesses,     \* stored Business rows
    appointments,   \* stored Appointment rows: id -> row
    links,          \* stored AppointmentCustomer rows: <<appointment id, customer>>
    nextId,         \* next auto-increment appointment id
    users,          \* stored User rows: id -> row
    business_name,  \* the name column of the stored Business rows
    availability,   \* stored Availability rows: <<business, window>>
    reqs,           \* the requests in flight: position, arguments, loaded object
    response        \* what the last finished request answered

vars == <<now, backend, serial, customers, providers, businesses, appointments,
          links, nextId, users, business_name, availability, reqs, response>>
db == <<customers, providers, businesses, appointments, links, nextId, users,
        business_name, availability>>

NoRow == [business |-> "none", date |-> 0, time |-> 0, status |-> "none", notes |-> ""]

NoUser == [username |-> <<"", 0>>, email |-> <<<<"", 0>>, "">>, role |-> "none"]

IdleReq == [op |-> "idle", pc |-> "idle", appt |-> 0, biz |-> "none",
            uid |-> "none", acct |-> NoUser,
            custs |-> <<>>, date |-> 0, time |-> 0, notes |-> "", obj |-> NoRow]

\* datetime.combine(appointment_date, appointment_time), as a number
DateTime(d, t) == (d - 1) * Cardinality(Times) + t

Stored == DOMAIN appointments

AtSlot(a, b, d, t) ==
    /\ appointments[a].business = b
    /\ appointments[a].date = d
    /\ appointments[a].time = t

\* an availability query that counts the rows of every status
check_time_slot_available_any_status(b, d, t) ==
    ~ \E a \in Stored : AtSlot(a, b, d, t)

\* an availability check that looks at every business
check_time_slot_available_any_business(b, d, t) ==
    ~ \E a \in Stored :
          /\ appointments[a].date = d /\ appointments[a].time = t
          /\ appointments[a].status = ACTIVE

\* AppointmentRepository.check_time_slot_available
check_time_slot_available(b, d, t) ==
    ~ \E a \in Stored : AtSlot(a, b, d, t) /\ appointments[a].status = ACTIVE

Participants(a) == {c \in Customers : <<a, c>> \in links}

\* an ownership test that lets every provider through
verify_ownership_anyone(b, p) == TRUE

\* BusinessRepository.verify_ownership
verify_ownership(b, p) == BusinessOwner(b) = p

\* customer_ids lists of a call: any list, repeated ids included
RECURSIVE SeqsUpTo(_, _)
SeqsUpTo(S, n) ==
    IF n = 0 THEN {<<>>}
    ELSE LET shorter == SeqsUpTo(S, n - 1)
         IN  shorter \cup {Append(s, x) : s \in {q \in shorter : Len(q) = n - 1}, x \in S}

CustomerLists == SeqsUpTo(Customers, MaxCustomersPerCall)

InFlight(r) == reqs[r].pc # "idle"
BooksInFlight == Cardinality({r \in ReqIds : InFlight(r) /\ reqs[r].op = "book"})

\* a request may start: its slot is free, and in a serial run nothing else runs
MayStart(r) ==
    /\ ~ InFlight(r)
    /\ serial => r = 1 /\ \A q \in ReqIds : ~ InFlight(q)

\* the request answers and its slot is free again
Respond(r, res) == reqs' = [reqs EXCEPT ![r] = IdleReq] /\ response' = res

\* the request goes on to its next round trip
Continue(r, q) == reqs' = [reqs EXCEPT ![r] = q] /\ UNCHANGED response

\* ------------------------------------------------------- book_appointment
\* the service's checks with the business looked up before the date is compared
book_appointment_validate_business_first(b, cs, d, t) ==
    IF Len(cs) = 0 THEN Answer(InvalidInput, "At least one customer is required")
    ELSE IF b \notin businesses THEN Answer(NotFound, "Business not found")
    ELSE IF DateTime(d, t) <= now THEN Answer(InvalidInput, "must be in the future")
    ELSE IF \E i \in 1..Len(cs) : cs[i] \notin customers
         THEN Answer(InvalidInput, "Customer not found")
    ELSE Pass

\* AppointmentService.book_appointment lines 61-89: the validation and the
\* lookups, first failure wins
book_appointment_validate(b, cs, d, t) ==
    IF Len(cs) = 0 THEN Answer(InvalidInput, "At least one customer is required")
    ELSE IF DateTime(d, t) <= now THEN Answer(InvalidInput, "must be in the future")
    ELSE IF b \notin businesses THEN Answer(NotFound, "Business not found")
    ELSE IF \E i \in 1..Len(cs) : cs[i] \notin customers
         THEN Answer(InvalidInput, "Customer not found")
    ELSE Pass

\* AppointmentRepository.create_appointment lines 68-87
create_appointment_validate(b, cs, d, t) ==
    IF Len(cs) = 0 THEN Answer(InvalidInput, "At least one customer is required")
    ELSE IF DateTime(d, t) <= now THEN Answer(InvalidInput, "must be in the future")
    ELSE IF ~ check_time_slot_available(b, d, t)
         THEN Answer(SlotConflict, "already booked")
    ELSE Pass

\* a table without the index
unique_active_appointment_slot_absent(a, b, d, t, st) == TRUE

\* the partial unique index unique_active_appointment_slot, asked of a row
\* about to be written under id a with status st
unique_active_appointment_slot(a, b, d, t, st) ==
    st = ACTIVE =>
        ~ \E o \in Stored \ {a} : AtSlot(o, b, d, t) /\ appointments[o].status = ACTIVE

\* str(e) of the IntegrityError of the slot index names the index on
\* PostgreSQL; SQLite's text lists the columns of the index instead
ErrorNamesConstraint == backend = "postgresql"

\* AppointmentCustomer.objects.create for each customer in turn: the foreign
\* key to Customer and unique_together (appointment, customer)
RECURSIVE InsertLinks(_, _, _, _)
InsertLinks(a, cs, i, acc) ==
    IF i > Len(cs) THEN [err |-> "none", links |-> acc]
    ELSE IF cs[i] \notin customers \/ <<a, cs[i]>> \in acc
         THEN [err |-> "IntegrityError", links |-> acc]
         ELSE InsertLinks(a, cs, i + 1, acc \cup {<<a, cs[i]>>})

\* lines 89-108: the writes of create_appointment, in order, up to the first
\* database error
create_appointment_write(b, cs, d, t, n) ==
    LET row == [business |-> b, date |-> d, time |-> t, status |-> ACTIVE, notes |-> n]
    IN  IF ~ unique_active_appointment_slot(nextId, b, d, t, ACTIVE)
        THEN [err |-> "unique_active_appointment_slot",
              appointments |-> appointments, links |-> links, nextId |-> nextId]
        ELSE IF b \notin businesses
        THEN [err |-> "IntegrityError",
              appointments |-> appointments, links |-> links, nextId |-> nextId]
        ELSE LET ins == InsertLinks(nextId, cs, 1, links)
             IN  [err |-> ins.err,
                  appointments |-> (nextId :> row) @@ appointments,
                  links |-> ins.links,
                  nextId |-> nextId + 1]

\* a call outside any transaction: the rows written before the error stay
transaction_absent(w) == w

\* @transaction.atomic: a call that raises leaves no row behind
transaction_atomic(w) ==
    IF w.err = "none" THEN w
    ELSE [err |-> w.err, appointments |-> appointments, links |-> links,
          nextId |-> nextId]

\* a handler that takes every integrity error for a slot conflict
create_appointment_error_always_conflict(err) ==
    IF err = "none" THEN Success ELSE Answer(SlotConflict, "already booked")

\* lines 110-119: the exception raised for a database error
create_appointment_error(err) ==
    IF err = "none" THEN Success
    ELSE IF err = "unique_active_appointment_slot" /\ ErrorNamesConstraint
         THEN Answer(SlotConflict, "already booked")
         ELSE Answer(InvalidInput, "Database integrity error")

\* book_appointment up to the call of the repository
BookService(r, b, cs, d, t, n) ==
    /\ MayStart(r)
    /\ nextId + BooksInFlight <= MaxAppointments
    /\ LET e == book_appointment_validate(b, cs, d, t)
       IN  IF e = Pass
           THEN Continue(r, [IdleReq EXCEPT !.op = "book", !.pc = "check", !.biz = b,
                                            !.custs = cs, !.date = d, !.time = t,
                                            !.notes = n])
           ELSE Respond(r, e)
    /\ UNCHANGED <<now, backend, serial, db>>

\* create_appointment: the validation and the availability query
BookCheck(r) ==
    /\ reqs[r].op = "book" /\ reqs[r].pc = "check"
    /\ LET q == reqs[r]
           e == create_appointment_validate(q.biz, q.custs, q.date, q.time)
       IN  IF e = Pass THEN Continue(r, [q EXCEPT !.pc = "insert"])
           ELSE Respond(r, e)
    /\ UNCHANGED <<now, backend, serial, db>>

\* create_appointment: the inserts and the commit or rollback
BookInsert(r) ==
    /\ reqs[r].op = "book" /\ reqs[r].pc = "insert"
    /\ LET q == reqs[r]
           w == transaction_atomic(
                    create_appointment_write(q.biz, q.custs, q.date, q.time, q.notes))
       IN  /\ appointments' = w.appointments
           /\ links' = w.links
           /\ nextId' = w.nextId
           /\ Respond(r, create_appointment_error(w.err))
    /\ UNCHANGED <<now, backend, serial, customers, providers, businesses, users,
                   business_name, availability>>

\* ------------------------------------------------------------ cancellation
\* the caller of a cancel or an update: the profile the view resolves from
\* request.user
Actors(role) == IF role = "customer" THEN customers ELSE providers

\* a service that lets every caller cancel
cancel_authorized_anyone(role, actor, a) == TRUE

\* cancel_appointment_by_customer lines 130-134, cancel_appointment_by_provider
\* lines 169-173: may the actor cancel appointment a
cancel_authorized(role, actor, a) ==
    IF role = "customer" THEN actor \in Participants(a)
    ELSE verify_ownership(appointments[a].business, actor)

\* AppointmentRepository.get_appointment_by_id: the miss
get_appointment_by_id(a) ==
    IF a \notin Stored THEN Answer(InvalidInput, "Appointment not found") ELSE Pass

\* a cancel that does not look at the status it finds
cancel_appointment_check_idempotent(a) ==
    IF a \notin Stored THEN Answer(InvalidInput, "Appointment not found") ELSE Pass

\* AppointmentRepository.cancel_appointment lines 254-269: the read and the
\* status check
cancel_appointment_check(a) ==
    IF a \notin Stored THEN Answer(InvalidInput, "Appointment not found")
    ELSE IF appointments[a].status = CANCELLED
         THEN Answer(InvalidInput, "already cancelled")
         ELSE Pass

\* a service that looks at the status before it looks at the caller
CancelService_status_first(r, role, actor, a) ==
    /\ MayStart(r)
    /\ actor \in Actors(role)
    /\ IF a \notin Stored THEN Respond(r, get_appointment_by_id(a))
       ELSE IF cancel_appointment_check(a) # Pass
       THEN Respond(r, cancel_appointment_check(a))
       ELSE IF ~ cancel_authorized(role, actor, a)
       THEN Respond(r, Answer(Unauthorized, "not authorized to cancel"))
       ELSE Continue(r, [IdleReq EXCEPT !.op = "cancel", !.pc = "read", !.appt = a])
    /\ UNCHANGED <<now, backend, serial, db>>

\* cancel_appointment_by_customer / _by_provider up to the call of the repository
CancelService(r, role, actor, a) ==
    /\ MayStart(r)
    /\ actor \in Actors(role)
    /\ IF a \notin Stored THEN Respond(r, get_appointment_by_id(a))
       ELSE IF ~ cancel_authorized(role, actor, a)
       THEN Respond(r, Answer(Unauthorized, "not authorized to cancel"))
       ELSE Continue(r, [IdleReq EXCEPT !.op = "cancel", !.pc = "read", !.appt = a])
    /\ UNCHANGED <<now, backend, serial, db>>

\* AppointmentRepository.cancel_appointment line 272: the new status, set on
\* the loaded object
cancel_appointment_set(row) == [row EXCEPT !.status = CANCELLED]

\* AppointmentRepository.cancel_appointment lines 254-272: the read, the
\* status check, and the new status set on the loaded object
CancelRead(r) ==
    /\ reqs[r].op = "cancel" /\ reqs[r].pc = "read"
    /\ LET a == reqs[r].appt
       IN  IF cancel_appointment_check(a) # Pass
           THEN Respond(r, cancel_appointment_check(a))
           ELSE Continue(r, [reqs[r] EXCEPT !.pc = "save",
                                            !.obj = cancel_appointment_set(
                                                        appointments[a])])
    /\ UNCHANGED <<now, backend, serial, db>>

\* Model.save() of a loaded object: every column of the row is written from
\* the object; a row that is gone is re-inserted and fails on its business
\* foreign key; the slot index is checked
save(a, obj) ==
    IF a \notin Stored THEN [err |-> "IntegrityError", appointments |-> appointments]
    ELSE IF ~ unique_active_appointment_slot(a, obj.business, obj.date, obj.time,
                                             obj.status)
    THEN [err |-> "unique_active_appointment_slot", appointments |-> appointments]
    ELSE [err |-> "none", appointments |-> [appointments EXCEPT ![a] = obj]]

\* cancel_appointment lines 273-275: appointment.save()
CancelSave(r) ==
    /\ reqs[r].op = "cancel" /\ reqs[r].pc = "save"
    /\ LET w == save(reqs[r].appt, reqs[r].obj)
       IN  /\ appointments' = w.appointments
           /\ Respond(r, IF w.err = "none" THEN Success
                          ELSE Answer("500", "Failed to cancel appointment"))
    /\ UNCHANGED <<now, backend, serial, customers, providers, businesses, links,
                   nextId, users, business_name, availability>>

\* ------------------------------------------------------------ notes update
\* AppointmentViewSet.get_queryset lines 66-85: the appointments a caller sees
visible(role, actor, a) ==
    IF role = "customer" THEN actor \in Participants(a)
    ELSE BusinessOwner(appointments[a].business) = actor

\* AppointmentViewSet.update lines 273-277: get_object, and the notes set on
\* the loaded object; a miss is an Http404 that the except clause of the view
\* answers with 500
UpdateGet(r, role, actor, a, n) ==
    /\ MayStart(r)
    /\ actor \in Actors(role)
    /\ IF a \notin Stored \/ ~ visible(role, actor, a)
       THEN Respond(r, Answer("500", "Failed to update appointment"))
       ELSE Continue(r, [IdleReq EXCEPT !.op = "update", !.pc = "save", !.appt = a,
                                        !.obj = [appointments[a] EXCEPT !.notes = n]])
    /\ UNCHANGED <<now, backend, serial, db>>

\* AppointmentViewSet.update lines 278-287: appointment.save()
UpdateSave(r) ==
    /\ reqs[r].op = "update" /\ reqs[r].pc = "save"
    /\ LET w == save(reqs[r].appt, reqs[r].obj)
       IN  /\ appointments' = w.appointments
           /\ Respond(r, IF w.err = "none" THEN Success
                          ELSE Answer("500", "Failed to update appointment"))
    /\ UNCHANGED <<now, backend, serial, customers, providers, businesses, links,
                   nextId, users, business_name, availability>>

\* ModelViewSet's own destroy, which deletes the row
destroy_deleting(a) == [x \in Stored \ {a} |-> appointments[x]]

\* AppointmentViewSet.destroy: the rows after a DELETE request
destroy(a) == appointments

Destroy(r, a) ==
    /\ MayStart(r)
    /\ appointments' = destroy(a)
    /\ Respond(r, Answer("405", "Appointments cannot be deleted"))
    /\ UNCHANGED <<now, backend, serial, customers, providers, businesses, links,
                   nextId, users, business_name, availability>>

\* ------------------------------------------------------------- query by id
\* AppointmentService.get_appointment_by_id_for_customer / _for_provider: the
\* repository's lookup, then the same participant or ownership test as cancel
GetById(r, role, actor, a) ==
    /\ MayStart(r)
    /\ actor \in Actors(role)
    /\ Respond(r, IF a \notin Stored THEN get_appointment_by_id(a)
                  ELSE IF ~ cancel_authorized(role, actor, a)
                  THEN Answer(Unauthorized, "not authorized to access")
                  ELSE Success)
    /\ UNCHANGED <<now, backend, serial, db>>

\* AppointmentViewSet.cancel: the HTTP status for the service's answer
cancel_http_status(res) ==
    IF res = Success THEN 200
    ELSE IF res.kind = InvalidInput THEN 400
    ELSE IF res.kind = Unauthorized THEN 403
    ELSE 500

\* ----------------------------------------------------------------- queries
ListAnswer(rows) == [kind |-> "list", msg |-> "", rows |-> rows]
GroupedAnswer(up, past) == [kind |-> "grouped", msg |-> "", upcoming |-> up, past |-> past]
BoolAnswer(v) == [kind |-> "bool", msg |-> "", value |-> v]

\* the orders a result set can be listed in
RECURSIVE Perms(_)
Perms(S) ==
    IF S = {} THEN {<<>>}
    ELSE UNION {{<<x>> \o q : q \in Perms(S \ {x})} : x \in S}

\* .order_by('appointment_date', 'appointment_time'): the lists the database
\* may return, rows with equal keys in any order
order_by(S) ==
    {q \in Perms(S) :
        \A i \in 1..Len(q), j \in 1..Len(q) :
            i < j =>
                \/ appointments[q[i]].date < appointments[q[j]].date
                \/ /\ appointments[q[i]].date = appointments[q[j]].date
                   /\ appointments[q[i]].time <= appointments[q[j]].time}

\* no date given: None
NoDate == 0

\* a range filter whose end date is exclusive
get_appointments_by_business_end_exclusive(b, start, end) ==
    order_by({a \in Stored :
                /\ appointments[a].business = b
                /\ start # NoDate => appointments[a].date >= start
                /\ end # NoDate => appointments[a].date < end})

\* AppointmentRepository.get_appointments_by_business
get_appointments_by_business(b, start, end) ==
    order_by({a \in Stored :
                /\ appointments[a].business = b
                /\ start # NoDate => appointments[a].date >= start
                /\ end # NoDate => appointments[a].date <= end})

\* AppointmentRepository.get_appointments_by_customer
get_appointments_by_customer(c) == order_by({a \in Stored : <<a, c>> \in links})

\* a provider query without the provider filter
get_appointments_by_provider_unfiltered(p) == order_by(Stored)

\* AppointmentRepository.get_appointments_by_provider
get_appointments_by_provider(p) ==
    order_by({a \in Stored : BusinessOwner(appointments[a].business) = p})

\* a grouping that counts an appointment at the current moment as upcoming
is_upcoming_inclusive(a) ==
    DateTime(appointments[a].date, appointments[a].time) >= now
    /\ appointments[a].status = ACTIVE

\* AppointmentService.get_customer_appointments lines 216-217: the test of the
\* loop
is_upcoming(a) ==
    DateTime(appointments[a].date, appointments[a].time) > now
    /\ appointments[a].status = ACTIVE

IsPast(a) == ~ is_upcoming(a)

\* AppointmentService.get_customer_appointments: the rows of the repository,
\* split in their order
get_customer_appointments(rows) ==
    GroupedAnswer(SelectSeq(rows, is_upcoming), SelectSeq(rows, IsPast))

QueryByBusiness(r, b, start, end) ==
    /\ MayStart(r)
    /\ b \in businesses
    /\ \E rows \in get_appointments_by_business(b, start, end) :
          Respond(r, ListAnswer(rows))
    /\ UNCHANGED <<now, backend, serial, db>>

QueryByCustomer(r, c) ==
    /\ MayStart(r)
    /\ c \in customers
    /\ \E rows \in get_appointments_by_customer(c) : Respond(r, ListAnswer(rows))
    /\ UNCHANGED <<now, backend, serial, db>>

QueryByProvider(r, p) ==
    /\ MayStart(r)
    /\ p \in providers
    /\ \E rows \in get_appointments_by_provider(p) : Respond(r, ListAnswer(rows))
    /\ UNCHANGED <<now, backend, serial, db>>

GroupedForCustomer(r, c) ==
    /\ MayStart(r)
    /\ c \in customers
    /\ \E rows \in get_appointments_by_customer(c) :
          Respond(r, get_customer_appointments(rows))
    /\ UNCHANGED <<now, backend, serial, db>>

\* AppointmentService.check_time_slot_availability
check_time_slot_availability(b, d, t) ==
    IF b \notin businesses THEN Answer(NotFound, "Business not found")
    ELSE BoolAnswer(check_time_slot_available(b, d, t))

CheckAvailability(r, b, d, t) ==
    /\ MayStart(r)
    /\ Respond(r, check_time_slot_availability(b, d, t))
    /\ UNCHANGED <<now, backend, serial, db>>

\* ProviderAppointmentListView: get_queryset and the list action of
\* ReadOnlyModelViewSet, which answers 200 with the rows of the queryset; for a
\* user who is not a provider the queryset is Appointment.objects.none()
ProviderList(r, role, actor) ==
    /\ MayStart(r)
    /\ actor \in Actors(role)
    /\ IF role = "provider"
       THEN \E rows \in get_appointments_by_provider(actor) :
               Respond(r, ListAnswer(rows))
       ELSE Respond(r, ListAnswer(<<>>))
    /\ UNCHANGED <<now, backend, serial, db>>

\* a delete of businesses whose availability windows have no foreign key
CascadeBusinesses_keeping_windows(gone) ==
    LET dead == {a \in Stored : appointments[a].business \in gone}
    IN  /\ businesses' = businesses \ gone
        /\ business_name' = [b \in businesses \ gone |-> business_name[b]]
        /\ availability' = availability
        /\ appointments' = [a \in Stored \ dead |-> appointments[a]]
        /\ links' = {l \in links : l[1] \notin dead}

\* ----------------------------------------------------------------- deletes
\* on_delete=CASCADE from Business to Appointment to AppointmentCustomer
CascadeBusinesses(gone) ==
    LET dead == {a \in Stored : appointments[a].business \in gone}
    IN  /\ businesses' = businesses \ gone
        /\ business_name' = [b \in businesses \ gone |-> business_name[b]]
        /\ availability' = {w \in availability : w[1] \notin gone}
        /\ appointments' = [a \in Stored \ dead |-> appointments[a]]
        /\ links' = {l \in links : l[1] \notin dead}

\* BusinessRepository.delete_business
delete_business(r, b, p) ==
    /\ MayStart(r)
    /\ p \in providers
    /\ IF b \notin businesses
       THEN /\ Respond(r, Answer(NotFound, "Business not found"))
            /\ UNCHANGED <<businesses, business_name, availability, appointments,
                           links>>
       ELSE IF ~ verify_ownership(b, p)
       THEN /\ Respond(r, Answer(Unauthorized, "not authorized to delete"))
            /\ UNCHANGED <<businesses, business_name, availability, appointments,
                           links>>
       ELSE Respond(r, Success) /\ CascadeBusinesses({b})
    /\ UNCHANGED <<now, backend, serial, customers, providers, nextId, users>>

\* UserRepository.delete_user: on_delete=CASCADE from User to the profile, from
\* Provider to Business, from Customer to AppointmentCustomer
delete_user(r, u) ==
    LET gone == IF u \in providers
                THEN {b \in businesses : BusinessOwner(b) = u} ELSE {}
        dead == {a \in Stored : appointments[a].business \in gone}
    IN  /\ MayStart(r)
        /\ IF u \notin DOMAIN users
           THEN /\ Respond(r, Answer(UserNotFound, "User not found"))
                /\ UNCHANGED <<customers, providers, businesses, business_name,
                               availability, appointments, links, users>>
           ELSE /\ users' = [x \in DOMAIN users \ {u} |-> users[x]]
                /\ customers' = customers \ {u}
                /\ providers' = providers \ {u}
                /\ businesses' = businesses \ gone
                /\ business_name' = [b \in businesses \ gone |-> business_name[b]]
                /\ availability' = {w \in availability : w[1] \notin gone}
                /\ appointments' = [a \in Stored \ dead |-> appointments[a]]
                /\ links' = {l \in links : l[1] \notin dead /\ l[2] # u}
                /\ Respond(r, Success)
        /\ UNCHANGED <<now, backend, serial, nextId>>

\* the clock
Tick ==
    /\ now < MaxNow
    /\ now' = now + 1
    /\ UNCHANGED <<backend, serial, db, reqs, response>>

\* ---------------------------------------------------------------- businesses
\* str.strip() on a business name
NameInputs == BusinessNames \cup {"", " "}

strip(n) == IF n = " " THEN "" ELSE n

\* BusinessService.update_business_for_provider with fields = {name}: the
\* business, the ownership, the name, then BusinessRepository.update_business
update_business_for_provider(r, b, p, name) ==
    /\ MayStart(r)
    /\ p \in providers
    /\ IF b \notin businesses
       THEN Respond(r, Answer(NotFound, "Business not found")) /\ UNCHANGED business_name
       ELSE IF ~ verify_ownership(b, p)
       THEN /\ Respond(r, Answer(Unauthorized, "not authorized to update"))
            /\ UNCHANGED business_name
       ELSE IF name = "" \/ strip(name) = ""
       THEN /\ Respond(r, Answer(InvalidUserData, "Business name cannot be empty"))
            /\ UNCHANGED business_name
       ELSE /\ business_name' = [business_name EXCEPT ![b] = strip(name)]
            /\ Respond(r, Success)
    /\ UNCHANGED <<now, backend, serial, customers, providers, businesses,
                   appointments, links, nextId, users, availability>>

\* ------------------------------------------------------------- availability
\* a stored window is <<business, <<day_of_week, start_time, end_time>>>> with
\* the times as hours; a submitted slot is <<day_of_week, start, end>> with
\* the times as the texts of the request
SlotDays == {0}
Hours == {9, 10, 11}
TimeTexts == {"9:00", "09:00", "10:00", "11:00"}

\* datetime.strptime(text, '%H:%M').time(), and the conversion of the text by
\* the TimeField when the row is written
strptime(t) ==
    CASE t \in {"9:00", "09:00"} -> 9
      [] t = "10:00" -> 10
      [] OTHER -> 11

\* the order of str: "09:00" < "10:00" < "11:00" < "9:00"
str_rank(t) ==
    CASE t = "09:00" -> 1
      [] t = "10:00" -> 2
      [] t = "11:00" -> 3
      [] OTHER -> 4

\* AvailabilityCreateSerializer.validate_slots: end after start, on the parsed
\* times
validate_slots(ws) == \A w \in ws : strptime(w[3]) > strptime(w[2])

\* Availability.clean as Availability.objects.create runs it in the bulk
\* replace: the attributes are still the texts of the request
clean_str(w) == ~ (str_rank(w[3]) <= str_rank(w[2]))

\* a model without a clean method
clean_absent(start, end) == TRUE

\* Availability.clean on time values
clean(start, end) == ~ (end <= start)

\* the row a submitted slot is stored as
stored_slot(w) == <<w[1], strptime(w[2]), strptime(w[3])>>

\* unique_together (business, day_of_week, start_time) among submitted slots
slots_clash(ws) ==
    \E v \in ws, w \in ws :
        v # w /\ v[1] = w[1] /\ strptime(v[2]) = strptime(w[2])

bulk_fails(ws) == (\E w \in ws : ~ clean_str(w)) \/ slots_clash(ws)

\* AvailabilityListView.post lines 107-120: the windows of b are deleted and
\* the slots created one by one; done are the slots created when a create
\* raises
bulk_write(b, ws, done) ==
    [err |-> bulk_fails(ws),
     availability |->
         {x \in availability : x[1] # b}
         \cup ({b} \X {stored_slot(w) : w \in IF bulk_fails(ws) THEN done ELSE ws})]

\* a block that is not a transaction
availability_atomic_absent(w) == w

\* with transaction.atomic(): an exception leaving the block undoes its writes
availability_atomic(w) ==
    IF w.err THEN [err |-> TRUE, availability |-> availability] ELSE w

\* AvailabilityListView.post by the user of provider p: the serializer
\* refuses a business that does not exist or is not p's and slots that do not
\* end after they start; the windows of the business are replaced by the
\* posted ones in one transaction; an exception of a create is not caught
AvailabilityPost(r, p, b, ws) ==
    /\ MayStart(r)
    /\ p \in providers
    /\ IF b \notin businesses
       THEN Respond(r, Answer("400", "Business not found.")) /\ UNCHANGED availability
       ELSE IF BusinessOwner(b) # p
       THEN /\ Respond(r, Answer("400", "You don't have permission to manage this business."))
            /\ UNCHANGED availability
       ELSE IF ~ validate_slots(ws)
       THEN /\ Respond(r, Answer("400", "End time must be after start time"))
            /\ UNCHANGED availability
       ELSE \E done \in SUBSET ws :
               /\ IF bulk_fails(ws) THEN done # ws /\ ~ bulk_fails(done)
                  ELSE done = ws
               /\ LET w == availability_atomic(bulk_write(b, ws, done))
                  IN  /\ availability' = w.availability
                      /\ Respond(r, IF w.err THEN Answer("500", "create raised")
                                     ELSE Answer("201", ""))
    /\ UNCHANGED <<now, backend, serial, customers, providers, businesses,
                   appointments, links, nextId, users, business_name>>

\* a field the body of a PUT does not name
Absent == -1
NoBusiness == "none"

\* the row after AvailabilitySerializer(availability, data, partial=True)
\* has set the named fields
merged(x, f) ==
    <<IF f.business = NoBusiness THEN x[1] ELSE f.business,
      <<IF f.day = Absent THEN x[2][1] ELSE f.day,
        IF f.start = Absent THEN x[2][2] ELSE f.start,
        IF f.end = Absent THEN x[2][3] ELSE f.end>>>>

\* AvailabilitySerializer.is_valid on a partial update: the business exists,
\* UniqueTogetherValidator against the other rows, then validate() on the
\* fields of the body
put_is_valid(x, f) ==
    LET m == merged(x, f)
    IN  /\ m[1] \in businesses
        /\ ~ \E y \in availability \ {x} :
                y[1] = m[1] /\ y[2][1] = m[2][1] /\ y[2][2] = m[2][2]
        /\ ~ (f.start # Absent /\ f.end # Absent /\ f.end <= f.start)

\* AvailabilityDetailView.put on the window x by the user of provider p
AvailabilityPut(r, p, x, f) ==
    /\ MayStart(r)
    /\ p \in providers
    /\ IF x \notin availability
       THEN Respond(r, Answer("404", "Availability not found.")) /\ UNCHANGED availability
       ELSE IF BusinessOwner(x[1]) # p
       THEN /\ Respond(r, Answer("403", "You don't have permission to access this availability."))
            /\ UNCHANGED availability
       ELSE IF ~ put_is_valid(x, f)
       THEN Respond(r, Answer("400", "")) /\ UNCHANGED availability
       ELSE IF ~ clean(merged(x, f)[2][2], merged(x, f)[2][3])
       THEN Respond(r, Answer("500", "save raised")) /\ UNCHANGED availability
       ELSE /\ availability' = (availability \ {x}) \cup {merged(x, f)}
            /\ Respond(r, Answer("200", ""))
    /\ UNCHANGED <<now, backend, serial, customers, providers, businesses,
                   appointments, links, nextId, users, business_name>>

\* AvailabilityDetailView.delete
AvailabilityDelete(r, p, x) ==
    /\ MayStart(r)
    /\ p \in providers
    /\ IF x \notin availability
       THEN Respond(r, Answer("404", "Availability not found.")) /\ UNCHANGED availability
       ELSE IF BusinessOwner(x[1]) # p
       THEN /\ Respond(r, Answer("403", "You don't have permission to access this availability."))
            /\ UNCHANGED availability
       ELSE /\ availability' = availability \ {x}
            /\ Respond(r, Answer("204", ""))
    /\ UNCHANGED <<now, backend, serial, customers, providers, businesses,
                   appointments, links, nextId, users, business_name>>

\* --------------------------------------------------------------- visibility
\* a queryset without the filter on the role of the caller
get_queryset_unfiltered(u, b, start, end) ==
    {a \in Stored :
        /\ (b # NoBusiness /\ users[u].role = "PROVIDER") => appointments[a].business = b
        /\ start # NoDate => appointments[a].date >= start
        /\ end # NoDate => appointments[a].date <= end}

\* AppointmentViewSet.get_queryset for the authenticated user u and the query
\* parameters business, start_date and end_date: the rows before the order_by
get_queryset(u, b, start, end) ==
    IF users[u].role = "CUSTOMER" /\ u \notin customers THEN {}
    ELSE IF users[u].role = "PROVIDER" /\ u \notin providers THEN {}
    ELSE IF users[u].role \notin {"CUSTOMER", "PROVIDER"} THEN {}
    ELSE {a \in Stored :
            /\ IF users[u].role = "CUSTOMER" THEN <<a, u>> \in links
               ELSE BusinessOwner(appointments[a].business) = u
            /\ (b # NoBusiness /\ users[u].role = "PROVIDER")
               => appointments[a].business = b
            /\ start # NoDate => appointments[a].date >= start
            /\ end # NoDate => appointments[a].date <= end}

\* AppointmentViewSet.list
List(r, u, b, start, end) ==
    /\ MayStart(r)
    /\ u \in DOMAIN users
    /\ \E rows \in order_by(get_queryset(u, b, start, end)) :
          Respond(r, ListAnswer(rows))
    /\ UNCHANGED <<now, backend, serial, db>>

\* AppointmentViewSet.retrieve: get_object on the queryset; a miss is an
\* Http404 that the except clause of the view answers with 500
Retrieve(r, u, a) ==
    /\ MayStart(r)
    /\ u \in DOMAIN users
    /\ Respond(r, IF a \in get_queryset(u, NoBusiness, NoDate, NoDate)
                  THEN ListAnswer(<<a>>)
                  ELSE Answer("500", "Failed to retrieve appointment"))
    /\ UNCHANGED <<now, backend, serial, db>>

\* ------------------------------------------------------------------ accounts
username_exists(n, but) == \E x \in DOMAIN users \ but : users[x].username = n
email_exists(e, but) == \E x \in DOMAIN users \ but : users[x].email = e

\* the unique indexes of alicetant_user on username and on email, asked of a
\* row about to be written under id x: the column the IntegrityError names
user_unique(x, row) ==
    IF username_exists(row.username, {x}) THEN "username"
    ELSE IF email_exists(row.email, {x}) THEN "email"
    ELSE "none"

\* the id the next inserted account gets
NewUserId ==
    NewUserIds[CHOOSE i \in 1..Len(NewUserIds) :
                  /\ NewUserIds[i] \notin DOMAIN users
                  /\ \A j \in 1..(i - 1) : NewUserIds[j] \in DOMAIN users]

UserInsertsInFlight ==
    Cardinality({r \in ReqIds : reqs[r].op \in {"create_user", "register"}})

MaxUsers == 2

MayAddUser == Cardinality(DOMAIN users) + UserInsertsInFlight < MaxUsers

\* UserRepository.create_user lines 58-78: the role and the two exists()
\* queries
create_user_validate(username, email, role) ==
    IF role \notin UserRoles THEN Answer(InvalidUserData, "Invalid role")
    ELSE IF username_exists(username, {}) THEN Answer(DuplicateUser, "username")
    ELSE IF email_exists(email, {}) THEN Answer(DuplicateUser, "email")
    ELSE Pass

\* User.objects.create_user: the insert
user_insert(row) ==
    IF user_unique(NewUserId, row) # "none"
    THEN [err |-> user_unique(NewUserId, row), users |-> users]
    ELSE [err |-> "none", users |-> (NewUserId :> row) @@ users]

\* user.save(): every column of the row is written from the loaded object; a
\* row that is gone is inserted again
user_save(u, row) ==
    IF user_unique(u, row) # "none"
    THEN [err |-> user_unique(u, row), users |-> users]
    ELSE [err |-> "none",
          users |-> [x \in DOMAIN users \cup {u} |-> IF x = u THEN row ELSE users[x]]]

\* create_user lines 90-100, update_user lines 347-359: the exception for the
\* IntegrityError, by the column its text names
integrity_error(err) ==
    IF err = "none" THEN Success
    ELSE IF err \in {"username", "email"} THEN Answer(DuplicateUser, err)
    ELSE Answer(InvalidUserData, "Database integrity error")

\* UserRepository.create_user up to the insert
CreateUserCheck(r, username, email, role) ==
    /\ MayStart(r)
    /\ MayAddUser
    /\ LET e == create_user_validate(username, email, role)
       IN  IF e = Pass
           THEN Continue(r, [IdleReq EXCEPT !.op = "create_user", !.pc = "insert",
                                            !.acct = [username |-> username,
                                                      email |-> email, role |-> role]])
           ELSE Respond(r, e)
    /\ UNCHANGED <<now, backend, serial, db>>

CreateUserInsert(r) ==
    /\ reqs[r].op = "create_user" /\ reqs[r].pc = "insert"
    /\ LET w == user_insert(reqs[r].acct)
       IN  /\ users' = w.users
           /\ Respond(r, integrity_error(w.err))
    /\ UNCHANGED <<now, backend, serial, customers, providers, businesses,
                   appointments, links, nextId, business_name, availability>>

\* UserRepository.update_user lines 313-330: the exists() queries for the
\* field that changes, on the user object the caller has loaded
update_user_validate(u, field, value) ==
    IF field = "email" /\ email_exists(value, {u}) THEN Answer(DuplicateUser, "email")
    ELSE IF field = "username" /\ username_exists(value, {u})
         THEN Answer(DuplicateUser, "username")
    ELSE IF field = "role" /\ value \notin UserRoles
         THEN Answer(InvalidUserData, "Invalid role")
    ELSE Pass

UpdateUserCheck(r, u, field, value) ==
    /\ MayStart(r)
    /\ u \in DOMAIN users
    /\ LET e == update_user_validate(u, field, value)
       IN  IF e = Pass
           THEN Continue(r, [IdleReq EXCEPT !.op = "update_user", !.pc = "save",
                                            !.uid = u,
                                            !.acct = [users[u] EXCEPT ![field] = value]])
           ELSE Respond(r, e)
    /\ UNCHANGED <<now, backend, serial, db>>

UpdateUserSave(r) ==
    /\ reqs[r].op = "update_user" /\ reqs[r].pc = "save"
    /\ LET w == user_save(reqs[r].uid, reqs[r].acct)
       IN  /\ users' = w.users
           /\ Respond(r, integrity_error(w.err))
    /\ UNCHANGED <<now, backend, serial, customers, providers, businesses,
                   appointments, links, nextId, business_name, availability>>

\* str.lower() on the local part of an email
lower(e) == <<IF e[1][1] = "Ann" THEN <<"ann", e[1][2]>> ELSE e[1], e[2]>>

\* EmailUpdateSerializer.validate_email and EmailUpdateView.put lines 78-102
EmailUpdateValidate(r, u, email) ==
    /\ MayStart(r)
    /\ u \in DOMAIN users
    /\ IF email_exists(lower(email), {u})
       THEN Respond(r, Answer("409", "This email address is already in use."))
       ELSE Continue(r, [IdleReq EXCEPT !.op = "email_update", !.pc = "save",
                                        !.uid = u,
                                        !.acct = [users[u] EXCEPT
                                                     !.email = lower(email)]])
    /\ UNCHANGED <<now, backend, serial, db>>

\* EmailUpdateView.put lines 103-123: user.save(), any exception answered 500
EmailUpdateSave(r) ==
    /\ reqs[r].op = "email_update" /\ reqs[r].pc = "save"
    /\ LET w == user_save(reqs[r].uid, reqs[r].acct)
       IN  /\ users' = w.users
           /\ Respond(r, IF w.err = "none" THEN Success
                          ELSE Answer("500", "An error occurred while updating email."))
    /\ UNCHANGED <<now, backend, serial, customers, providers, businesses,
                   appointments, links, nextId, business_name, availability>>

\* UserRepository.create_provider on the account u the caller has loaded: the
\* role, then the insert, refused by the one-to-one index when u has a
\* provider profile
create_provider(r, u) ==
    /\ MayStart(r)
    /\ u \in DOMAIN users
    /\ IF users[u].role # "PROVIDER"
       THEN /\ Respond(r, Answer(InvalidUserData, "User must have PROVIDER role."))
            /\ UNCHANGED providers
       ELSE IF u \in providers
       THEN /\ Respond(r, Answer(InvalidUserData, "Provider profile already exists"))
            /\ UNCHANGED providers
       ELSE providers' = providers \cup {u} /\ Respond(r, Success)
    /\ UNCHANGED <<now, backend, serial, customers, businesses, appointments, links,
                   nextId, users, business_name, availability>>

\* UserRepository.create_customer
create_customer(r, u) ==
    /\ MayStart(r)
    /\ u \in DOMAIN users
    /\ IF users[u].role # "CUSTOMER"
       THEN /\ Respond(r, Answer(InvalidUserData, "User must have CUSTOMER role."))
            /\ UNCHANGED customers
       ELSE IF u \in customers
       THEN /\ Respond(r, Answer(InvalidUserData, "Customer profile already exists"))
            /\ UNCHANGED customers
       ELSE customers' = customers \cup {u} /\ Respond(r, Success)
    /\ UNCHANGED <<now, backend, serial, providers, businesses, appointments, links,
                   nextId, users, business_name, availability>>

\* str.upper() on the role a registration names
RoleInputs == {"customer", "Provider", "admin"}

upper(role) ==
    CASE role \in {"customer", "Customer", "CUSTOMER"} -> "CUSTOMER"
      [] role \in {"provider", "Provider", "PROVIDER"} -> "PROVIDER"
      [] OTHER -> "ADMIN"

\* f"{base_username}{counter}": a name is <<letters, number>>, the number 0
\* standing for no digits, and the digits of the counter follow those of the
\* name
append_counter(name, counter) ==
    <<name[1], name[2] * (IF counter < 10 THEN 10 ELSE 100) + counter>>

\* a search that starts at the counter instead of the bare local part
next_free_username_skipping_base(base, counter) ==
    CHOOSE n \in {append_counter(base, k) : k \in 1..(Cardinality(DOMAIN users) + 1)} :
        ~ username_exists(n, {})

\* AuthService.generate_username lines 68-77: the local part of the email,
\* then the local part followed by 1, 2, ... until no account has that
\* username
RECURSIVE next_free_username(_, _)
next_free_username(base, counter) ==
    IF username_exists(IF counter = 0 THEN base ELSE append_counter(base, counter), {})
    THEN next_free_username(base, counter + 1)
    ELSE IF counter = 0 THEN base ELSE append_counter(base, counter)

\* an email text without '@' is <<text, NoAt>>; a local part without letters
NoAt == "(no @)"
EmptyLocal == <<"", 0>>

\* AuthService.generate_username lines 58-66: the refusals
generate_username_error(email) ==
    IF email[2] = NoAt THEN Answer(InvalidUserData, "Invalid email format")
    ELSE IF email[1] = EmptyLocal
    THEN Answer(InvalidUserData, "Cannot derive username from email")
    ELSE Pass

generate_username(email) == next_free_username(email[1], 0)

UsernameAnswer(n) == [kind |-> "username", msg |-> "", value |-> n]

\* a call of AuthService.generate_username
GenerateUsername(r, email) ==
    /\ MayStart(r)
    /\ Respond(r, IF generate_username_error(email) # Pass
                  THEN generate_username_error(email)
                  ELSE UsernameAnswer(generate_username(email)))
    /\ UNCHANGED <<now, backend, serial, db>>

\* a function that is not wrapped in a transaction
register_atomic_absent(w) == w

\* @transaction.atomic on register_user: an exception leaving the function
\* undoes what it wrote
register_atomic(w) ==
    IF w.err = "none" THEN w
    ELSE [err |-> w.err, users |-> users, customers |-> customers,
          providers |-> providers]

\* register_user lines 166-197: the insert of the account, then of the profile
\* of its role; profile_fails is an exception raised while the profile is
\* created
register_write(row, profile_fails) ==
    LET ins == user_insert(row)
    IN  IF ins.err # "none"
        THEN [err |-> ins.err, users |-> users, customers |-> customers,
              providers |-> providers]
        ELSE IF profile_fails
        THEN [err |-> "profile", users |-> ins.users, customers |-> customers,
              providers |-> providers]
        ELSE [err |-> "none", users |-> ins.users,
              customers |-> IF row.role = "CUSTOMER"
                            THEN customers \cup {NewUserId} ELSE customers,
              providers |-> IF row.role = "PROVIDER"
                            THEN providers \cup {NewUserId} ELSE providers]

register_error(err) ==
    IF err = "profile" THEN Answer(InvalidUserData, "Failed to create profile")
    ELSE integrity_error(err)

\* register_user lines 152-163: the role, then the username
RegisterStart(r, email, role) ==
    /\ MayStart(r)
    /\ MayAddUser
    /\ IF upper(role) \notin UserRoles
       THEN Respond(r, Answer(InvalidUserData, "Invalid role"))
       ELSE IF generate_username_error(email) # Pass
       THEN Respond(r, generate_username_error(email))
       ELSE Continue(r, [IdleReq EXCEPT !.op = "register", !.pc = "check",
                                        !.acct = [username |-> generate_username(email),
                                                  email |-> email,
                                                  role |-> upper(role)]])
    /\ UNCHANGED <<now, backend, serial, db>>

\* create_user called by register_user, up to the insert
RegisterCheck(r) ==
    /\ reqs[r].op = "register" /\ reqs[r].pc = "check"
    /\ LET q == reqs[r]
           e == create_user_validate(q.acct.username, q.acct.email, q.acct.role)
       IN  IF e = Pass THEN Continue(r, [q EXCEPT !.pc = "insert"])
           ELSE Respond(r, e)
    /\ UNCHANGED <<now, backend, serial, db>>

\* the writes of register_user and the end of its transaction
RegisterInsert(r) ==
    /\ reqs[r].op = "register" /\ reqs[r].pc = "insert"
    /\ \E profile_fails \in BOOLEAN :
          LET w == register_atomic(register_write(reqs[r].acct, profile_fails))
          IN  /\ users' = w.users
              /\ customers' = w.customers
              /\ providers' = w.providers
              /\ Respond(r, register_error(w.err))
    /\ UNCHANGED <<now, backend, serial, businesses, appointments, links, nextId,
                   business_name, availability>>

\* ------------------------------------------------------------ specifications
InitDb ==
    /\ customers = Customers
    /\ providers = Providers
    /\ businesses = Businesses
    /\ appointments = <<>>
    /\ links = {}
    /\ nextId = 1
    /\ users = [u \in Customers \cup Providers |->
                   [username |-> <<u, 0>>, email |-> <<<<u, 0>>, "x">>,
                    role |-> IF u \in Customers THEN "CUSTOMER" ELSE "PROVIDER"]]
    /\ business_name = [b \in Businesses |-> "A"]
    /\ availability = {}
    /\ reqs = [r \in ReqIds |-> IdleReq]
    /\ response = NoAnswer

ApptIds == 1..MaxAppointments
Roles == {"customer", "provider"}
Users == Customers \cup Providers

\* requests one at a time: booking, cancellation, notes update, DELETE
Init ==
    /\ InitDb
    /\ now = 2
    /\ backend = "sqlite"
    /\ serial = TRUE

Next ==
    \/ \E b \in Businesses, cs \in CustomerLists :
          BookService(1, b, cs, 2, 1, "")
    \/ BookCheck(1)
    \/ BookInsert(1)
    \/ \E role \in Roles, actor \in Users, a \in ApptIds :
          CancelService(1, role, actor, a)
    \/ CancelRead(1)
    \/ CancelSave(1)
    \/ \E role \in Roles, actor \in Users, a \in ApptIds, n \in Notes :
          UpdateGet(1, role, actor, a, n)
    \/ UpdateSave(1)
    \/ \E a \in ApptIds : Destroy(1, a)
    \/ \E role \in Roles, actor \in Users, a \in ApptIds :
          GetById(1, role, actor, a)

Spec == Init /\ [][Next]_vars

\* requests one at a time, with the deletes of businesses and accounts and
\* the clock
InitDelete ==
    /\ InitDb
    /\ now = 1
    /\ backend = "sqlite"
    /\ serial = TRUE

NextDelete ==
    \/ \E b \in Businesses, cs \in CustomerLists, d \in Dates :
          BookService(1, b, cs, d, 1, "")
    \/ BookCheck(1)
    \/ BookInsert(1)
    \/ \E role \in Roles, actor \in Users, a \in ApptIds :
          CancelService(1, role, actor, a)
    \/ CancelRead(1)
    \/ CancelSave(1)
    \/ \E a \in ApptIds : Destroy(1, a)
    \/ \E b \in Businesses, p \in Providers : delete_business(1, b, p)
    \/ \E u \in Users : delete_user(1, u)
    \/ Tick

SpecDelete == InitDelete /\ [][NextDelete]_vars

\* two requests at a time: bookings, cancellations and notes updates; each
\* request slot books for its own customer
RequestCustomer(r) == IF r = 1 THEN "c1" ELSE "c2"

InitConc ==
    /\ InitDb
    /\ now = 2
    /\ backend \in Backends
    /\ serial = FALSE

NextConc ==
    \/ \E r \in ReqIds : BookService(r, "b1", <<RequestCustomer(r)>>, 2, 1, "")
    \/ \E r \in ReqIds : BookCheck(r)
    \/ \E r \in ReqIds : BookInsert(r)
    \/ \E r \in ReqIds, role \in Roles, actor \in Users, a \in ApptIds :
          CancelService(r, role, actor, a)
    \/ \E r \in ReqIds : CancelRead(r)
    \/ \E r \in ReqIds : CancelSave(r)
    \/ \E r \in ReqIds, role \in Roles, actor \in Users, a \in ApptIds, n \in Notes :
          UpdateGet(r, role, actor, a, n)
    \/ \E r \in ReqIds : UpdateSave(r)

SpecConc == InitConc /\ [][NextConc]_vars

\* requests one at a time: bookings at any date and time, cancellations, the
\* clock, and the queries
InitQuery ==
    /\ InitDb
    /\ now = 1
    /\ backend = "sqlite"
    /\ serial = TRUE

DateRange == {NoDate} \cup Dates

NextQuery ==
    \/ \E b \in Businesses, cs \in {<<"c1">>, <<"c2">>}, d \in Dates, t \in Times :
          BookService(1, b, cs, d, t, "")
    \/ BookCheck(1)
    \/ BookInsert(1)
    \/ \E a \in ApptIds : CancelService(1, "provider", BusinessOwner("b1"), a)
    \/ CancelRead(1)
    \/ CancelSave(1)
    \/ Tick
    \/ \E b \in Businesses, start \in DateRange, end \in DateRange :
          QueryByBusiness(1, b, start, end)
    \/ \E c \in Customers : QueryByCustomer(1, c)
    \/ \E p \in Providers : QueryByProvider(1, p)
    \/ \E c \in Customers : GroupedForCustomer(1, c)
    \/ \E b \in Businesses, d \in Dates, t \in Times : CheckAvailability(1, b, d, t)
    \/ \E role \in Roles, actor \in Users : ProviderList(1, role, actor)

SpecQuery == InitQuery /\ [][NextQuery]_vars

\* Businesses: a provider renames and deletes businesses and posts their
\* availability windows, while appointments are booked, one request at a time.
InitBusiness ==
    /\ InitDb
    /\ now = 1
    /\ backend = "sqlite"
    /\ serial = TRUE

NextBusiness ==
    \/ \E b \in Businesses, d \in Dates : BookService(1, b, <<"c1">>, d, 1, "")
    \/ BookCheck(1)
    \/ BookInsert(1)
    \/ \E b \in Businesses, p \in Providers, n \in NameInputs :
          update_business_for_provider(1, b, p, n)
    \/ \E b \in Businesses, p \in Providers : delete_business(1, b, p)
    \/ \E b \in Businesses, p \in Providers, ws \in SUBSET Windows \ {{}} :
          AvailabilityPost(1, p, b, ws)

SpecBusiness == InitBusiness /\ [][NextBusiness]_vars

\* Profiles: accounts are created, given profiles, updated and deleted, one
\* request at a time, on empty tables.
InitProfiles ==
    /\ now = 1
    /\ backend = "sqlite"
    /\ serial = TRUE
    /\ customers = {}
    /\ providers = {}
    /\ businesses = {}
    /\ appointments = <<>>
    /\ links = {}
    /\ nextId = 1
    /\ users = <<>>
    /\ business_name = <<>>
    /\ availability = {}
    /\ reqs = [r \in ReqIds |-> IdleReq]
    /\ response = Success

NextProfiles ==
    \/ \E n \in {<<"ann", 0>>, <<"Ann", 0>>}, e \in Emails, role \in UserRoles \cup {"ADMIN"} :
          CreateUserCheck(1, n, e, role)
    \/ CreateUserInsert(1)
    \/ \E u \in DOMAIN users : create_provider(1, u)
    \/ \E u \in DOMAIN users : create_customer(1, u)
    \/ \E u \in DOMAIN users, role \in UserRoles \cup {"ADMIN"} :
          UpdateUserCheck(1, u, "role", role)
    \/ \E u \in DOMAIN users, e \in Emails : UpdateUserCheck(1, u, "email", e)
    \/ UpdateUserSave(1)
    \/ \E u \in {NewUserIds[i] : i \in 1..Len(NewUserIds)} : delete_user(1, u)

SpecProfiles == InitProfiles /\ [][NextProfiles]_vars

\* Cascades: appointments are booked and availability windows posted, then
\* businesses and accounts are deleted, one request at a time.
InitCascade ==
    /\ InitDb
    /\ now = 1
    /\ backend = "sqlite"
    /\ serial = TRUE

NextCascade ==
    \/ \E b \in Businesses, c \in Customers, d \in Dates :
          BookService(1, b, <<c>>, d, 1, "")
    \/ BookCheck(1)
    \/ BookInsert(1)
    \/ \E b \in Businesses, p \in Providers, ws \in SUBSET Windows \ {{}} :
          AvailabilityPost(1, p, b, ws)
    \/ \E b \in Businesses, p \in Providers : delete_business(1, b, p)
    \/ \E u \in Users : delete_user(1, u)

SpecCascade == InitCascade /\ [][NextCascade]_vars

\* Availability: providers replace, change and delete the availability
\* windows of the businesses, one request at a time.
SlotInputs == SlotDays \X (TimeTexts \ {"11:00"}) \X (TimeTexts \ {"9:00"})
SlotLists == {ws \in SUBSET SlotInputs : Cardinality(ws) \in {1, 2}}
PostCallers == {<<"b1", "p1">>, <<"b2", "p2">>, <<"b1", "p2">>}
MissingWindow == <<"b1", <<0, 10, 11>>>>
PutBodies ==
    [business : {NoBusiness, "b2"}, day : {Absent} \cup SlotDays,
     start : {Absent, 9, 10}, end : {Absent, 9, 11}]

InitAvailability ==
    /\ InitDb
    /\ now = 1
    /\ backend = "sqlite"
    /\ serial = TRUE

NextAvailability ==
    \/ \E c \in PostCallers, ws \in SlotLists : AvailabilityPost(1, c[2], c[1], ws)
    \/ \E p \in Providers, x \in availability \cup {MissingWindow}, f \in PutBodies :
          AvailabilityPut(1, p, x, f)
    \/ \E p \in Providers, x \in availability \cup {MissingWindow} :
          AvailabilityDelete(1, p, x)

SpecAvailability == InitAvailability /\ [][NextAvailability]_vars

\* Visibility: appointments are booked and then listed, retrieved and
\* annotated by customers, providers, accounts that have no profile and an
\* account whose role is neither, one request at a time.
Visitors ==
    [u1 |-> [username |-> <<"u1", 0>>, email |-> <<<<"u1", 0>>, "x">>, role |-> "CUSTOMER"],
     u2 |-> [username |-> <<"u2", 0>>, email |-> <<<<"u2", 0>>, "x">>, role |-> "PROVIDER"],
     u3 |-> [username |-> <<"u3", 0>>, email |-> <<<<"u3", 0>>, "x">>, role |-> ""]]

InitVisibility ==
    /\ now = 1
    /\ backend = "sqlite"
    /\ serial = TRUE
    /\ customers = Customers
    /\ providers = Providers
    /\ businesses = Businesses
    /\ appointments = <<>>
    /\ links = {}
    /\ nextId = 1
    /\ users = Visitors @@
               [u \in Customers \cup Providers |->
                   [username |-> <<u, 0>>, email |-> <<<<u, 0>>, "x">>,
                    role |-> IF u \in Customers THEN "CUSTOMER" ELSE "PROVIDER"]]
    /\ business_name = [b \in Businesses |-> "A"]
    /\ availability = {}
    /\ reqs = [r \in ReqIds |-> IdleReq]
    /\ response = Success

ListParams == {NoBusiness, "b1"} \X {NoDate, 2} \X {NoDate, 1}

NextVisibility ==
    \/ \E b \in Businesses, cs \in CustomerLists, d \in Dates :
          BookService(1, b, cs, d, 1, "")
    \/ BookCheck(1)
    \/ BookInsert(1)
    \/ \E u \in DOMAIN users, q \in ListParams : List(1, u, q[1], q[2], q[3])
    \/ \E u \in DOMAIN users, a \in ApptIds : Retrieve(1, u, a)
    \/ \E role \in Roles, actor \in Users, a \in ApptIds : UpdateGet(1, role, actor, a, "n")
    \/ UpdateSave(1)
    \/ \E role \in Roles, actor \in Users, a \in ApptIds : GetById(1, role, actor, a)

SpecVisibility == InitVisibility /\ [][NextVisibility]_vars

\* Usernames: accounts are created under given usernames, and usernames are
\* generated from email texts, one request at a time.
EmailTexts == (Locals \cup {<<"ann", 1>>, EmptyLocal}) \X (Domains \cup {NoAt})

InitUsername == InitProfiles

NextUsername ==
    \/ \E n \in {<<"ann", 0>>, <<"ann", 1>>, <<"ann", 2>>, <<"ann", 11>>}, e \in Emails :
          CreateUserCheck(1, n, e, "CUSTOMER")
    \/ CreateUserInsert(1)
    \/ \E e \in EmailTexts : GenerateUsername(1, e)

SpecUsername == InitUsername /\ [][NextUsername]_vars

\* Integrity: two bookings at a time for one slot, for one or two customers
\* or for the same customer twice, on either database.
InitIntegrity ==
    /\ InitDb
    /\ now = 2
    /\ backend \in Backends
    /\ serial = FALSE

NextIntegrity ==
    \/ \E r \in ReqIds, cs \in CustomerLists : BookService(r, "b1", cs, 2, 1, "")
    \/ \E r \in ReqIds : BookCheck(r)
    \/ \E r \in ReqIds : BookInsert(r)
    \/ \E r \in ReqIds, a \in ApptIds : CancelService(r, "provider", "p1", a)
    \/ \E r \in ReqIds : CancelRead(r)
    \/ \E r \in ReqIds : CancelSave(r)

SpecIntegrity == InitIntegrity /\ [][NextIntegrity]_vars

\* Accounts: two requests at a time creating, registering and updating
\* accounts on an empty table.
InitAccounts ==
    /\ now = 1
    /\ backend = "sqlite"
    /\ serial = FALSE
    /\ customers = {}
    /\ providers = {}
    /\ businesses = {}
    /\ appointments = <<>>
    /\ links = {}
    /\ nextId = 1
    /\ users = <<>>
    /\ business_name = <<>>
    /\ availability = {}
    /\ reqs = [r \in ReqIds |-> IdleReq]
    /\ response = Success

UsernameInputs == {<<"ann", 0>>, <<"ann", 1>>}

NextAccounts ==
    \E r \in ReqIds :
        \/ \E n \in UsernameInputs, e \in Emails, role \in {"CUSTOMER", "ADMIN"} :
              CreateUserCheck(r, n, e, role)
        \/ CreateUserInsert(r)
        \/ \E e \in Emails, role \in RoleInputs : RegisterStart(r, e, role)
        \/ RegisterCheck(r)
        \/ RegisterInsert(r)
        \/ \E u \in DOMAIN users, e \in Emails : UpdateUserCheck(r, u, "email", e)
        \/ \E u \in DOMAIN users, n \in UsernameInputs :
              UpdateUserCheck(r, u, "username", n)
        \/ UpdateUserSave(r)
        \/ \E u \in DOMAIN users, e \in Emails : EmailUpdateValidate(r, u, e)
        \/ EmailUpdateSave(r)

SpecAccounts == InitAccounts /\ [][NextAccounts]_vars

\* Registration: two register_user calls at a time, on an empty table, for two
\* emails with the same local part.
RegisterEmails == {<<<<"ann", 0>>, "x">>, <<<<"ann", 0>>, "y">>}

NextRegister ==
    \E r \in ReqIds :
        \/ \E e \in RegisterEmails, role \in RoleInputs : RegisterStart(r, e, role)
        \/ RegisterCheck(r)
        \/ RegisterInsert(r)

SpecRegister == InitAccounts /\ [][NextRegister]_vars

\* ===================================================================== claims

\* the request in slot r answers in this step
Answers(r) == InFlight(r) /\ reqs'[r].pc = "idle"

ActiveAt(b, d, t) ==
    {a \in Stored : AtSlot(a, b, d, t) /\ appointments[a].status = ACTIVE}

\* C1: in every reachable state, whatever the sequence or interleaving of
\* bookings and cancellations, no (business, date, time) holds two
\* appointments with status ACTIVE.
C1_SlotExclusivity ==
    \A a1 \in Stored, a2 \in Stored :
        (/\ a1 # a2
         /\ appointments[a1].status = ACTIVE
         /\ appointments[a2].status = ACTIVE)
        => ~ AtSlot(a2, appointments[a1].business, appointments[a1].date,
                    appointments[a1].time)

\* the index has refused the insert of a second booking of a slot that holds
\* an ACTIVE appointment
C1_Witness ==
    /\ backend = "sqlite"
    /\ response = Answer(InvalidInput, "Database integrity error")
    /\ \E a \in Stored : appointments[a].status = ACTIVE

\* C2: of the bookings racing for one slot, each otherwise valid and for its
\* own customer, the one that finds the slot free at its insert succeeds and
\* every other answers TimeSlotConflictError and nothing else.
C2_RaceSafety ==
    [][\A r \in ReqIds :
          (Answers(r) /\ reqs[r].op = "book") =>
              IF ActiveAt(reqs[r].biz, reqs[r].date, reqs[r].time) = {}
              THEN response' = Success
              ELSE response'.kind = SlotConflict]_vars

\* C3: an appointment's status changes only from ACTIVE to CANCELLED, and
\* only in the save of a cancel; a CANCELLED appointment never becomes
\* ACTIVE again.
C3_CancelledIsTerminal ==
    [][\A a \in Stored \cap DOMAIN appointments' :
          appointments'[a].status # appointments[a].status =>
              /\ appointments[a].status = ACTIVE
              /\ appointments'[a].status = CANCELLED
              /\ \E r \in ReqIds : reqs[r].op = "cancel" /\ Answers(r)]_vars

\* the customers of a list are pairwise different
Distinct(cs) == \A i \in 1..Len(cs), j \in 1..Len(cs) : i # j => cs[i] # cs[j]

\* the arguments of the booking in slot r pass every check but, possibly, the
\* slot's
ValidBooking(q) ==
    /\ Len(q.custs) > 0 /\ Distinct(q.custs)
    /\ \A i \in 1..Len(q.custs) : q.custs[i] \in customers
    /\ q.biz \in businesses
    /\ DateTime(q.date, q.time) > now

RowsKept == \A a \in Stored : a \in DOMAIN appointments' /\ appointments'[a] = appointments[a]

\* C4: once the ACTIVE appointment of a slot is cancelled, a booking for the
\* slot with otherwise valid arguments passes the availability query and its
\* insert succeeds: a new ACTIVE row stands at the slot beside the CANCELLED
\* one, which is kept as it was, and the slot is no longer available.
C4_RebookAfterCancel ==
    [][\A r \in ReqIds :
          LET q == reqs[r]
          IN  (/\ q.op = "book" /\ reqs'[r] # q
               /\ ValidBooking(q)
               /\ ActiveAt(q.biz, q.date, q.time) = {}
               /\ \E a \in Stored : /\ AtSlot(a, q.biz, q.date, q.time)
                                    /\ appointments[a].status = CANCELLED)
              => IF q.pc = "check" THEN reqs'[r].pc = "insert"
                 ELSE /\ response' = Success
                      /\ RowsKept
                      /\ DOMAIN appointments' = Stored \cup {nextId}
                      /\ appointments'[nextId] =
                            [business |-> q.biz, date |-> q.date, time |-> q.time,
                             status |-> ACTIVE, notes |-> q.notes]
                      /\ \A b \in Businesses, d \in Dates, t \in Times :
                            (b = q.biz /\ d = q.date /\ t = q.time)
                            => ~ check_time_slot_available(b, d, t)']_vars

C4_Witness ==
    \E a1 \in Stored, a2 \in Stored :
        /\ a1 < a2
        /\ appointments[a1].status = CANCELLED
        /\ appointments[a2].status = ACTIVE
        /\ AtSlot(a2, appointments[a1].business, appointments[a1].date,
                  appointments[a1].time)
        /\ response = Success
        /\ ~ check_time_slot_available(appointments[a1].business,
                                       appointments[a1].date, appointments[a1].time)

\* the caller may cancel appointment a: a customer among its participants, or
\* the provider owning its business
MayCancel(role, actor, a) ==
    \/ role = "customer" /\ <<a, actor>> \in links
    \/ role = "provider" /\ BusinessOwner(appointments[a].business) = actor

AlreadyCancelled == Answer(InvalidInput, "already cancelled")

\* C5 as stated: a cancel of a CANCELLED appointment, by customer or by
\* provider, never answers anything but InvalidInput 'already cancelled', and
\* writes nothing.
C5_CancelOfCancelledIsInvalidInput ==
    [][/\ \A role \in Roles, actor \in Users, a \in Stored :
            (appointments[a].status = CANCELLED /\ CancelService(1, role, actor, a))
            => /\ UNCHANGED db
               /\ reqs'[1].pc = "read" \/ response' = AlreadyCancelled
       /\ \A r \in ReqIds :
            (/\ reqs[r].op = "cancel" /\ reqs[r].pc = "read" /\ reqs'[r] # reqs[r]
             /\ reqs[r].appt \in Stored
             /\ appointments[reqs[r].appt].status = CANCELLED)
            => UNCHANGED db /\ Answers(r) /\ response' = AlreadyCancelled]_vars

\* C5, amended: a cancel of a CANCELLED appointment never succeeds and writes
\* nothing: a caller who may not cancel it is answered Unauthorized, a caller
\* who may is answered InvalidInput 'already cancelled' by the repository.
C5_CancelOfCancelledFails ==
    [][/\ \A role \in Roles, actor \in Users, a \in Stored :
            (appointments[a].status = CANCELLED /\ CancelService(1, role, actor, a))
            => /\ UNCHANGED db
               /\ IF MayCancel(role, actor, a)
                  THEN reqs'[1].pc = "read" /\ reqs'[1].appt = a
                  ELSE reqs'[1].pc = "idle" /\ response'.kind = Unauthorized
       /\ \A r \in ReqIds :
            (/\ reqs[r].op = "cancel" /\ reqs[r].pc = "read" /\ reqs'[r] # reqs[r]
             /\ reqs[r].appt \in Stored
             /\ appointments[reqs[r].appt].status = CANCELLED)
            => UNCHANGED db /\ Answers(r) /\ response' = AlreadyCancelled]_vars

C5_Witness ==
    /\ response = AlreadyCancelled
    /\ \E a \in Stored : appointments[a].status = CANCELLED

\* C6: a cancel by a customer who is not a participant of the appointment, or
\* by a provider who does not own its business, answers Unauthorized and
\* leaves every stored row as it was.
C6_UnauthorizedCancel ==
    [][\A role \in Roles, actor \in Users, a \in Stored :
          (CancelService(1, role, actor, a) /\ ~ MayCancel(role, actor, a))
          => /\ response'.kind = Unauthorized
             /\ reqs'[1].pc = "idle"
             /\ UNCHANGED db]_vars

C6_Witness ==
    /\ response.kind = Unauthorized
    /\ \E a \in Stored : appointments[a].status = ACTIVE

\* C7: a cancel that succeeds keeps the row under its id with status
\* CANCELLED and the same business, date, time and notes, keeps every
\* participant link, and changes no other appointment.
C7_CancelIsSoftDelete ==
    [][\A r \in ReqIds :
          (reqs[r].op = "cancel" /\ Answers(r) /\ response' = Success)
          => LET a == reqs[r].appt
             IN  /\ a \in Stored
                 /\ DOMAIN appointments' = Stored
                 /\ appointments' =
                        [appointments EXCEPT ![a].status = CANCELLED]
                 /\ links' = links]_vars

\* C10: a booking that succeeds adds exactly one row, ACTIVE, and exactly one
\* participant link per customer of the call; a booking that fails, at any
\* step, adds no row and no link and leaves every row as it was.
C10_AllOrNothing ==
    [][/\ (reqs[1].pc = "idle" /\ ~ UNCHANGED <<appointments, links>>)
          => \A b \in Businesses, cs \in CustomerLists, d \in Dates, t \in Times,
                n \in Notes :
                ~ BookService(1, b, cs, d, t, n)
       /\ \A r \in ReqIds :
            (reqs[r].op = "book" /\ Answers(r))
            => LET q == reqs[r]
               IN  IF response' = Success
                   THEN /\ RowsKept
                        /\ DOMAIN appointments' = Stored \cup {nextId}
                        /\ nextId \notin Stored
                        /\ appointments'[nextId] =
                              [business |-> q.biz, date |-> q.date, time |-> q.time,
                               status |-> ACTIVE, notes |-> q.notes]
                        /\ links' = links \cup
                              {<<nextId, q.custs[i]>> : i \in 1..Len(q.custs)}
                        /\ Cardinality(links') = Cardinality(links) + Len(q.custs)
                   ELSE UNCHANGED <<appointments, links>>]_vars

\* an insert of participant links has failed and left nothing, after a
\* booking for two customers had stored its row and both links
C10_Witness ==
    /\ response = Answer(InvalidInput, "Database integrity error")
    /\ Stored = {1}
    /\ Cardinality(Participants(1)) = 2
    /\ Cardinality(links) = 2

\* C8 as stated: every appointment ever created, that is every id the counter
\* has handed out, is stored.
C8_NeverHardDeleted == \A a \in 1..(nextId - 1) : a \in Stored

\* C8, amended: booking, cancellation, the DELETE request on an appointment
\* and the deletion of a customer's account remove no appointment row; a row
\* is removed only by the cascade of the deletion of its business, which the
\* deletion of the owning provider's account includes.
C8_RemovedOnlyByBusinessCascade ==
    [][\A a \in Stored :
          a \notin DOMAIN appointments'
          => appointments[a].business \in businesses \ businesses']_vars

C8_Witness ==
    /\ \E a \in 1..(nextId - 1) : a \notin Stored
    /\ \E a \in Stored : appointments[a].status = CANCELLED
    /\ customers # Customers

\* the preconditions of a booking, numbered as the claim numbers them
Violated(k, b, cs, d, t) ==
    CASE k = 1 -> Len(cs) = 0
      [] k = 2 -> DateTime(d, t) <= now
      [] k = 3 -> b \notin businesses
      [] k = 4 -> \E i \in 1..Len(cs) : cs[i] \notin customers
      [] k = 5 -> ActiveAt(b, d, t) # {}

KindOf(k) ==
    CASE k = 1 -> InvalidInput
      [] k = 2 -> InvalidInput
      [] k = 3 -> NotFound
      [] k = 4 -> InvalidInput
      [] k = 5 -> SlotConflict

FirstViolated(b, cs, d, t) ==
    LET bad == {k \in 1..5 : Violated(k, b, cs, d, t)}
    IN  IF bad = {} THEN 0 ELSE CHOOSE k \in bad : \A j \in bad : k <= j

\* C9: a booking that violates a precondition answers with the error kind of
\* the lowest-numbered precondition violated, at the service's checks and at
\* the repository's; with none of 1-4 violated the service calls the
\* repository, with none violated the repository goes on to its insert.
C9_FirstViolationWins ==
    [][/\ (reqs[1].pc = "idle" /\ reqs'[1].pc = "check")
          => FirstViolated(reqs'[1].biz, reqs'[1].custs, reqs'[1].date,
                           reqs'[1].time) \notin 1..4
       /\ (/\ reqs[1].pc = "idle" /\ reqs'[1].pc = "idle"
           /\ response' # response /\ UNCHANGED <<db, now>>)
          => \A b \in Businesses, cs \in CustomerLists, d \in Dates :
                BookService(1, b, cs, d, 1, "")
                => response'.kind = KindOf(FirstViolated(b, cs, d, 1))
       /\ \A r \in ReqIds :
            (reqs[r].op = "book" /\ reqs[r].pc = "check" /\ reqs'[r] # reqs[r])
            => LET q == reqs[r]
                   k == FirstViolated(q.biz, q.custs, q.date, q.time)
               IN  IF k = 0 THEN reqs'[r].pc = "insert"
                   ELSE Answers(r) /\ response'.kind = KindOf(k)]_vars

\* a state where a booking can violate the business and the customer
\* precondition together, and the earlier one has been answered
C9_Witness ==
    /\ response = Answer(NotFound, "Business not found")
    /\ \E b \in Businesses, c \in Customers :
          /\ Violated(3, b, <<c>>, 2, 1) /\ Violated(4, b, <<c>>, 2, 1)
          /\ ~ Violated(2, b, <<c>>, 2, 1)

\* C11 as stated: a query by id or a cancel, by customer or by provider, that
\* names an appointment id that is not stored answers with the NotFound kind,
\* and the cancel endpoint with status 404.
C11_MissingAppointmentIsNotFound ==
    [][\A role \in Roles, actor \in Users, a \in ApptIds :
          (/\ a \notin Stored
           /\ CancelService(1, role, actor, a) \/ GetById(1, role, actor, a))
          => /\ response'.kind = NotFound
             /\ cancel_http_status(response') = 404]_vars

\* C20 as stated: of two cancels of the same ACTIVE appointment that run at
\* once, the second to commit finds the appointment CANCELLED and answers
\* InvalidInput 'already cancelled': a cancel that answers while the stored
\* status is already CANCELLED never answers with success.
C20_SecondCancelFails ==
    [][\A r \in ReqIds :
          (/\ reqs[r].op = "cancel" /\ Answers(r)
           /\ reqs[r].appt \in Stored
           /\ appointments[reqs[r].appt].status = CANCELLED)
          => response' = AlreadyCancelled]_vars

\* the rows of a list, and lists without a repeated row in ascending order of
\* date and time
Range(q) == {q[i] : i \in 1..Len(q)}

Ascending(q) ==
    /\ Len(q) = Cardinality(Range(q))
    /\ \A i \in 1..Len(q), j \in 1..Len(q) :
          i < j => DateTime(appointments[q[i]].date, appointments[q[i]].time)
                   <= DateTime(appointments[q[j]].date, appointments[q[j]].time)

\* C12: the grouped view of a customer splits exactly the customer's
\* appointments into two lists without a common row; a row is upcoming if and
\* only if it is ACTIVE and its date and time are strictly after the current
\* moment; the clock moves rows from upcoming to past without a write.
C12_GroupedViewIsPartition ==
    [][/\ response'.kind = "grouped"
          => \A c \in Customers :
                GroupedForCustomer(1, c)
                => LET up == Range(response'.upcoming)
                       past == Range(response'.past)
                   IN  /\ up \cap past = {}
                       /\ up \cup past = {a \in Stored : <<a, c>> \in links}
                       /\ Len(response'.upcoming) = Cardinality(up)
                       /\ Len(response'.past) = Cardinality(past)
                       /\ \A a \in up \cup past :
                             a \in up <=>
                                /\ appointments[a].status = ACTIVE
                                /\ DateTime(appointments[a].date,
                                            appointments[a].time) > now
                       /\ UNCHANGED db
       /\ now' # now => UNCHANGED db]_vars

\* the view lists an ACTIVE appointment of the current moment as past, beside
\* one that is still upcoming
C12_Witness ==
    /\ response.kind = "grouped"
    /\ \E a \in Range(response.past) :
          /\ appointments[a].status = ACTIVE
          /\ DateTime(appointments[a].date, appointments[a].time) = now
    /\ response.upcoming # <<>>
    /\ \A a \in Range(response.upcoming) :
          DateTime(appointments[a].date, appointments[a].time) > now

\* C13: for a business that exists the availability check answers true if
\* and only if no ACTIVE appointment stands at (business, date, time),
\* whatever CANCELLED appointments stand there, and it writes nothing.
C13_AvailabilityCheck ==
    [][response'.kind = "bool"
       => \A b \in Businesses, d \in Dates, t \in Times :
             (CheckAvailability(1, b, d, t) /\ b \in businesses)
             => /\ response'.value = (ActiveAt(b, d, t) = {})
                /\ UNCHANGED db]_vars

C13_Witness ==
    /\ response = BoolAnswer(TRUE)
    /\ Stored # {}
    /\ \A a \in Stored : appointments[a].status = CANCELLED

\* C14: the query by business lists exactly the appointments of the business,
\* ACTIVE and CANCELLED, whose date is not before the start, when one is
\* given, and not after the end, when one is given, in ascending order of
\* (date, time).
C14_QueryByBusiness ==
    [][response'.kind = "list"
       => \A b \in Businesses, start \in DateRange, end \in DateRange :
             QueryByBusiness(1, b, start, end)
             => /\ Range(response'.rows) =
                      {a \in Stored :
                          /\ appointments[a].business = b
                          /\ start = NoDate \/ start <= appointments[a].date
                          /\ end = NoDate \/ appointments[a].date <= end}
                /\ Ascending(response'.rows)]_vars

\* a list of two appointments of one business, one of them CANCELLED, the
\* earlier date with the later time
C14_Witness ==
    /\ response.kind = "list"
    /\ Len(response.rows) = 2
    /\ LET a1 == appointments[response.rows[1]]
           a2 == appointments[response.rows[2]]
       IN  /\ a1.business = a2.business
           /\ a1.status # a2.status
           /\ a1.date < a2.date /\ a1.time > a2.time

\* C15: the query by provider lists exactly the appointments of the
\* businesses the provider owns, the query by customer exactly the
\* appointments the customer is a participant of; both list every status in
\* ascending order of (date, time).
C15_QueryByProviderAndCustomer ==
    [][response'.kind = "list"
       => /\ \A p \in Providers :
                QueryByProvider(1, p)
                => /\ Range(response'.rows) =
                         {a \in Stored : BusinessOwner(appointments[a].business) = p}
                   /\ Ascending(response'.rows)
          /\ \A c \in Customers :
                QueryByCustomer(1, c)
                => /\ Range(response'.rows) = {a \in Stored : <<a, c>> \in links}
                   /\ Ascending(response'.rows)]_vars

\* a list of one CANCELLED appointment while a second appointment, of the
\* other provider's business and the other customer, is stored
C15_Witness ==
    /\ response.kind = "list"
    /\ Len(response.rows) = 1
    /\ appointments[response.rows[1]].status = CANCELLED
    /\ \E o \in Stored :
          /\ appointments[o].business # appointments[response.rows[1]].business
          /\ Participants(o) \cap Participants(response.rows[1]) = {}

\* C19 as stated: the provider-appointments listing refuses a request of a
\* customer with 403 and an error, and does not answer it with a list.
C19_ProviderListRefusesCustomer ==
    [][\A c \in Customers :
          ProviderList(1, "customer", c)
          => response'.kind = "403" /\ response'.msg # ""]_vars

\* no two accounts share a username and no two share an email
UniqueAccounts ==
    \A x \in DOMAIN users, y \in DOMAIN users :
        x # y => /\ users[x].username # users[y].username
                 /\ users[x].email # users[y].email

\* the answers that tell the caller the username or email is taken: the
\* DuplicateUserError of the repository and the 409 of the email view
DuplicateAnswers == {DuplicateUser, "409"}

\* the request in slot r is about to write a row that repeats the username or
\* the email of another stored account
WritesDuplicate(r) ==
    \/ /\ reqs[r].op \in {"create_user", "register"} /\ reqs[r].pc = "insert"
       /\ user_unique(NewUserId, reqs[r].acct) # "none"
    \/ /\ reqs[r].op \in {"update_user", "email_update"} /\ reqs[r].pc = "save"
       /\ user_unique(reqs[r].uid, reqs[r].acct) # "none"

\* C16 as stated: whatever the interleaving of create_user, register_user,
\* update_user and email updates, no two accounts share a username or an
\* email, and a create or update that would introduce a duplicate answers
\* that the value is taken (DuplicateUserError; the 409 of the email view is
\* counted as the same answer) and leaves the stored accounts unchanged,
\* whether the duplicate is found by the exists() query before the write or
\* only by the write itself.
C16_DuplicateFailsAsDuplicate ==
    /\ []UniqueAccounts
    /\ [][\A r \in ReqIds :
            /\ (WritesDuplicate(r) /\ Answers(r))
               => response'.kind \in DuplicateAnswers /\ users' = users
            /\ \A n \in UsernameInputs, e \in Emails :
                  (/\ username_exists(n, {}) \/ email_exists(e, {})
                   /\ CreateUserCheck(r, n, e, "CUSTOMER"))
                  => response'.kind = DuplicateUser /\ users' = users
            /\ \A u \in DOMAIN users, e \in Emails :
                  /\ (email_exists(e, {u}) /\ UpdateUserCheck(r, u, "email", e))
                     => response'.kind = DuplicateUser /\ users' = users
                  /\ (email_exists(lower(e), {u}) /\ EmailUpdateValidate(r, u, e))
                     => response'.kind \in DuplicateAnswers /\ users' = users
            /\ \A u \in DOMAIN users, n \in UsernameInputs :
                  (username_exists(n, {u}) /\ UpdateUserCheck(r, u, "username", n))
                  => response'.kind = DuplicateUser /\ users' = users]_vars

ProfileFailed == Answer(InvalidUserData, "Failed to create profile")

\* C18: a register_user that answers with success has added exactly one
\* account, with the requested email and role, and exactly one profile, of
\* that role, for that account; a register_user that answers with a failure
\* (invalid role, duplicate email or username, failed profile creation) has
\* added neither an account nor a profile.
C18_RegistrationIsAtomic ==
    [][/\ \A r \in ReqIds :
             (reqs[r].op = "register" /\ Answers(r))
             => IF response' = Success
                THEN /\ NewUserId \notin DOMAIN users
                     /\ DOMAIN users' = DOMAIN users \cup {NewUserId}
                     /\ \A x \in DOMAIN users : users'[x] = users[x]
                     /\ users'[NewUserId].email = reqs[r].acct.email
                     /\ users'[NewUserId].role = reqs[r].acct.role
                     /\ IF reqs[r].acct.role = "CUSTOMER"
                        THEN /\ customers' = customers \cup {NewUserId}
                             /\ providers' = providers
                        ELSE /\ providers' = providers \cup {NewUserId}
                             /\ customers' = customers
                ELSE UNCHANGED <<users, customers, providers>>
       /\ \A r \in ReqIds, e \in Emails, role \in RoleInputs :
             (RegisterStart(r, e, role) /\ upper(role) \notin UserRoles)
             => /\ response'.kind = InvalidUserData
                /\ UNCHANGED <<users, customers, providers>>]_vars

\* a provider has registered, and the registration after it has lost its
\* account with its failed profile
C18_Witness ==
    /\ response = ProfileFailed
    /\ Cardinality(DOMAIN users) = 1
    /\ \E u \in DOMAIN users : u \in providers /\ users[u].role = "PROVIDER"

BusinessData == <<businesses, business_name, availability, appointments, links>>

\* C17: an update or a delete of business b asked by provider p answers
\* NotFound when b does not exist, and Unauthorized when b exists and p is
\* not the provider that owns b; in both cases the businesses, their names,
\* their availability windows and their appointments stay as they were. So a
\* business is changed or removed only by a request of its owner.
C17_BusinessOwnership ==
    [][\A b \in Businesses, p \in Providers :
          ((\E n \in NameInputs : update_business_for_provider(1, b, p, n))
             \/ delete_business(1, b, p))
          => /\ b \notin businesses
                => response'.kind = NotFound /\ UNCHANGED BusinessData
             /\ (b \in businesses /\ BusinessOwner(b) # p)
                => response'.kind = Unauthorized /\ UNCHANGED BusinessData
             /\ ~ UNCHANGED BusinessData
                => b \in businesses /\ BusinessOwner(b) = p]_vars

\* a provider has just been refused on a renamed business of another provider
\* that has an appointment and availability windows
C17_Witness ==
    /\ response.kind = Unauthorized
    /\ \E b \in businesses :
          /\ business_name[b] = "B"
          /\ \E a \in Stored : appointments[a].business = b
          /\ \E w \in availability : w[1] = b

\* C21 as stated: every stored appointment has at least one participant
\* link, whatever bookings, cancellations and deletions of accounts came
\* before, the deletion of a participating customer's account included.
C21_EveryAppointmentHasParticipant ==
    \A a \in Stored : \E l \in links : l[1] = a

\* every profile belongs to an account of its role, and no account has two
ProfilesAgree ==
    /\ \A u \in providers : u \in DOMAIN users /\ users[u].role = "PROVIDER"
    /\ \A u \in customers : u \in DOMAIN users /\ users[u].role = "CUSTOMER"
    /\ providers \cap customers = {}

\* C22 as stated: whatever create_user, create_provider, create_customer,
\* update_user and delete_user calls came before, every provider profile
\* belongs to an account of role PROVIDER, every customer profile to an
\* account of role CUSTOMER, and no account has more than one profile;
\* create_provider on an account whose role is not PROVIDER and
\* create_customer on an account whose role is not CUSTOMER answer
\* InvalidUserDataError and add no profile.
C22_ProfileAndRoleAgree ==
    /\ []ProfilesAgree
    /\ [][\A u \in DOMAIN users :
            /\ (create_provider(1, u) /\ users[u].role # "PROVIDER")
               => response'.kind = InvalidUserData /\ UNCHANGED <<providers, customers>>
            /\ (create_customer(1, u) /\ users[u].role # "CUSTOMER")
               => response'.kind = InvalidUserData /\ UNCHANGED <<providers, customers>>]_vars

\* every row that refers to another row refers to a stored one
ReferencesHold ==
    /\ customers \cup providers \subseteq DOMAIN users
    /\ \A b \in businesses : BusinessOwner(b) \in providers
    /\ \A a \in Stored : appointments[a].business \in businesses
    /\ \A w \in availability : w[1] \in businesses
    /\ \A l \in links : l[1] \in Stored /\ l[2] \in customers

\* C23: after any sequence of creations and deletions every profile refers
\* to a stored account, every business to a stored provider profile, every
\* appointment and availability window to a stored business, and every
\* participant link to a stored appointment and a stored customer profile; a
\* deleted account takes its profile with it, and a deleted business takes
\* its appointments, their participant links and its availability windows.
C23_ReferentialIntegrity ==
    /\ []ReferencesHold
    /\ [][/\ \A u \in Users :
               (delete_user(1, u) /\ response' = Success)
               => u \notin DOMAIN users' \cup customers' \cup providers'
          /\ \A b \in Businesses, p \in Providers :
               (delete_business(1, b, p) /\ response' = Success)
               => /\ b \notin businesses'
                  /\ \A a \in Stored :
                        appointments[a].business = b
                        => /\ a \notin DOMAIN appointments'
                           /\ \A l \in links' : l[1] # a
                  /\ \A w \in availability' : w[1] # b
                  /\ \A a \in Stored :
                        appointments[a].business # b
                        => /\ a \in DOMAIN appointments'
                           /\ appointments'[a] = appointments[a]]_vars

\* a business that had an appointment has been deleted with it, while the
\* other business keeps its appointment and its windows
C23_Witness ==
    /\ response = Success
    /\ businesses = {"b2"}
    /\ nextId = 3
    /\ Cardinality(Stored) = 1
    /\ \E w \in availability : w[1] = "b2"
    /\ \E l \in links : l[1] \in Stored

\* every stored window ends after it starts, and no two stored windows have
\* the same business, day and start
WindowsValid ==
    /\ \A x \in availability : x[2][3] > x[2][2]
    /\ \A x \in availability, y \in availability :
          (x[1] = y[1] /\ x[2][1] = y[2][1] /\ x[2][2] = y[2][2]) => x = y

\* C24: whatever bulk replacements, PUTs with any subset of the fields and
\* deletes came before, every stored window ends strictly after it starts and
\* no two share (business, day_of_week, start_time). The stored windows change
\* only with an answer of success; a bulk replacement answers success only if
\* every submitted slot ends after it starts and no two submitted slots have
\* the same day and start, and a PUT only if the row it makes ends after it
\* starts and no other row has its business, day and start. So a write that
\* would break either rule is refused and the stored windows stay.
C24_WindowInvariants ==
    /\ []WindowsValid
    /\ [][/\ availability' # availability => response'.kind \in {"200", "201", "204"}
          /\ response'.kind = "201"
             => \A c \in PostCallers, ws \in SlotLists :
                   AvailabilityPost(1, c[2], c[1], ws)
                   => /\ \A w \in ws : strptime(w[3]) > strptime(w[2])
                      /\ \A v \in ws, w \in ws :
                            (v[1] = w[1] /\ strptime(v[2]) = strptime(w[2])) => v = w
          /\ response'.kind = "200"
             => \A p \in Providers, x \in availability, f \in PutBodies :
                   AvailabilityPut(1, p, x, f)
                   => /\ merged(x, f)[2][3] > merged(x, f)[2][2]
                      /\ \A y \in availability \ {x} :
                            ~ (/\ y[1] = merged(x, f)[1]
                               /\ y[2][1] = merged(x, f)[2][1]
                               /\ y[2][2] = merged(x, f)[2][2])]_vars

\* a PUT has been refused by the clean method of the model while a business
\* has two windows
C24_Witness ==
    /\ response = Answer("500", "save raised")
    /\ \E x \in availability, y \in availability : x # y /\ x[1] = y[1]

\* C25: a bulk replacement for business b either answers 201 and the windows
\* of b are then exactly the submitted slots, or answers an error and the
\* windows of b are exactly what they were, also when the failure comes from
\* a create in the middle of the replacement; the windows of the other
\* businesses are the same before and after in both cases.
C25_BulkReplaceIsAtomic ==
    [][/\ response'.kind = "201"
          => \A c \in PostCallers, ws \in SlotLists :
                AvailabilityPost(1, c[2], c[1], ws)
                => /\ {x \in availability' : x[1] # c[1]}
                      = {x \in availability : x[1] # c[1]}
                   /\ {x \in availability' : x[1] = c[1]}
                      = {c[1]} \X {<<w[1], strptime(w[2]), strptime(w[3])>> : w \in ws}
       /\ response'.kind \in {"200", "204"}
          => \A c \in PostCallers, ws \in SlotLists : ~ AvailabilityPost(1, c[2], c[1], ws)
       /\ response'.kind \notin {"200", "201", "204"}
          => availability' = availability]_vars

\* a bulk replacement has failed in one of its creates, and windows are stored
C25_Witness ==
    /\ response = Answer("500", "create raised")
    /\ availability # {}

\* account u takes part in appointment a as a customer, or owns its business
\* as a provider
MayAccess(u, a) ==
    \/ users[u].role = "CUSTOMER" /\ u \in customers /\ <<a, u>> \in links
    \/ /\ users[u].role = "PROVIDER" /\ u \in providers
       /\ BusinessOwner(appointments[a].business) = u

\* C26: the list of the appointment endpoint holds only appointments the
\* caller takes part in as a customer or whose business the caller owns as a
\* provider, and is empty for a caller without profile or with another role;
\* retrieve answers with the appointment exactly for those callers, and the
\* notes update goes on to its write only for them; the by-id queries for a
\* customer and for a provider answer Unauthorized for a stored appointment
\* when the customer is no participant or the provider not the owner.
C26_RoleBasedVisibility ==
    [][/\ response'.kind = "list"
          => /\ \A u \in DOMAIN users, q \in ListParams :
                   List(1, u, q[1], q[2], q[3])
                   => \A i \in 1..Len(response'.rows) : MayAccess(u, response'.rows[i])
             /\ \A u \in DOMAIN users, a \in ApptIds :
                   Retrieve(1, u, a) => a \in Stored /\ MayAccess(u, a)
       /\ response'.kind = "500"
          => \A u \in DOMAIN users, a \in Stored :
                Retrieve(1, u, a) => ~ MayAccess(u, a)
       /\ reqs'[1].op = "update"
          => \A role \in Roles, actor \in Users, a \in ApptIds :
                UpdateGet(1, role, actor, a, "n") => a \in Stored /\ MayAccess(actor, a)
       /\ (reqs[1].op = "idle" /\ reqs'[1].op = "idle" /\ response'.kind # "list")
          => \A role \in Roles, actor \in Users, a \in Stored :
                (GetById(1, role, actor, a) /\ ~ MayAccess(actor, a))
                => response'.kind = Unauthorized]_vars

\* two appointments are stored and a caller has been listed exactly one
C26_Witness ==
    /\ response.kind = "list"
    /\ Len(response.rows) = 1
    /\ Cardinality(Stored) = 2

\* C27: for an email text with an '@' and a local part, generate_username
\* answers the local part when no account has it as username, and otherwise
\* the local part followed by the smallest k >= 1 for which no account has
\* that username; the answer is never the username of an account; a text
\* without '@' or without a local part is answered InvalidUserDataError.
C27_GenerateUsername ==
    [][\A e \in EmailTexts :
          GenerateUsername(1, e)
          => IF e[2] = NoAt \/ e[1] = EmptyLocal
             THEN response'.kind = InvalidUserData
             ELSE /\ response'.kind = "username"
                  /\ \A x \in DOMAIN users : users[x].username # response'.value
                  /\ IF \A x \in DOMAIN users : users[x].username # e[1]
                     THEN response'.value = e[1]
                     ELSE \E k \in 1..9 :
                             /\ response'.value = <<e[1][1], e[1][2] * 10 + k>>
                             /\ \A j \in 1..(k - 1) :
                                   \E x \in DOMAIN users :
                                      users[x].username = <<e[1][1], e[1][2] * 10 + j>>]_vars

\* ann and ann1 are taken and the name generated for ann@x is ann2
C27_Witness ==
    /\ response = UsernameAnswer(<<"ann", 2>>)
    /\ \E x \in DOMAIN users : users[x].username = <<"ann", 0>>
    /\ \E x \in DOMAIN users : users[x].username = <<"ann", 1>>

\* C28: a cancel of a CANCELLED appointment by a customer who is no
\* participant, or by a provider who does not own the business, answers
\* Unauthorized and not 'already cancelled'; the service goes on to the
\* status test of the repository only for a caller who may cancel, and
\* 'already cancelled' is answered only by that test.
C28_AuthorizationBeforeStatus ==
    [][/\ \A role \in Roles, actor \in Users, a \in Stored :
             CancelService(1, role, actor, a)
             => /\ ~ MayCancel(role, actor, a)
                   => /\ response'.kind = Unauthorized
                      /\ response' # AlreadyCancelled
                      /\ reqs'[1].pc = "idle"
                /\ reqs'[1].pc # "idle" => MayCancel(role, actor, a)
       /\ (response' = AlreadyCancelled /\ Answers(1))
          => reqs[1].op = "cancel" /\ reqs[1].pc = "read"]_vars

\* the only stored appointment is CANCELLED and a caller who may not cancel it
\* has just been refused
C28_Witness ==
    /\ response = Answer(Unauthorized, "not authorized to cancel")
    /\ Cardinality(Stored) = 1
    /\ \A a \in Stored : appointments[a].status = CANCELLED

\* C29: when the write of create_appointment fails, the answer is
\* TimeSlotConflictError only if an ACTIVE appointment holds the slot, that is
\* only for a violation of the slot index; a failure of the write with the
\* slot free, such as the same customer listed twice, is answered
\* InvalidInput; and after either failure the stored appointments and links
\* are what they were before the call.
C29_IntegrityErrorMapping ==
    [][\A r \in ReqIds :
          (reqs[r].op = "book" /\ reqs[r].pc = "insert" /\ Answers(r)
             /\ response' # Success)
          => /\ response'.kind = SlotConflict
                => ActiveAt(reqs[r].biz, reqs[r].date, reqs[r].time) # {}
             /\ ActiveAt(reqs[r].biz, reqs[r].date, reqs[r].time) = {}
                => response'.kind = InvalidInput
             /\ UNCHANGED <<appointments, links, nextId>>]_vars

\* on the database whose error text names the slot index, a booking that
\* lists a customer twice has failed with InvalidInput and left no row
C29_Witness ==
    /\ backend = "postgresql"
    /\ response = Answer(InvalidInput, "Database integrity error")
    /\ Stored = {}
    /\ links = {}

\* C30: a register_user call for an email that no stored account and no
\* other running registration has, with a valid role and no failure while its
\* profile is created, succeeds, also when another registration for an email
\* with the same local part runs at the same time; the usernames of the
\* stored accounts are distinct.
C30_SharedLocalPartBothSucceed ==
    /\ [](\A u, v \in DOMAIN users : users[u].username = users[v].username => u = v)
    /\ [][\A r \in ReqIds :
            (/\ reqs[r].op = "register"
             /\ Answers(r)
             /\ ~ email_exists(reqs[r].acct.email, {})
             /\ \A o \in ReqIds \ {r} :
                   ~ (reqs[o].op = "register" /\ reqs[o].acct.email = reqs[r].acct.email)
             /\ response' # Answer(InvalidUserData, "Failed to create profile"))
            => response' = Success]_vars

====
